---- MODULE Spec2Model ----
(***************************************************************************)
(* Bengio et al. neural language model (src/bengio_nn.py): the vocabulary  *)
(* pipeline, the training-pair generator, the NLM constructor and forward  *)
(* pass (tensor shapes), the per-example SGD loop and the vocabulary       *)
(* lookups of the word-similarity evaluation.                              *)
(*                                                                         *)
(* A token is the sequence of the code points of its characters, so that   *)
(* str.lower() and the ordering used by list.sort() are computed rather    *)
(* than assumed.  A Python dict is a record [keys, val]: keys is the       *)
(* insertion order, val the mapping.                                       *)
(***************************************************************************)
EXTENDS Integers, Sequences, FiniteSets, TLC

\* ------------------------------------------------------------- bounds ----
MaxSents  == 2      \* sentences in the raw corpus
MaxTokens == 3      \* tokens in the raw corpus (over all sentences)
MaxK      == 2      \* largest window size k of a script-level sampler invocation
MaxEpochCount == 2  \* largest epoch count a caller of train may have in mind
MaxVectorLen == 2   \* longest vectors get_cosine_similarity is called with
MaxCoord  == 1      \* largest absolute value of a coordinate of such a vector

\* -------------------------------------------------- program constants ----
HiddenWidth == 256             \* rows and columns of w1, rows of b1
DefaultK == 4                  \* k of generate_training_pairs when not given
DefaultEmbeddingLength == 64   \* embedding_length of NLM when not given

\* the (embedding_length, k) pairs NLM is constructed with: the defaults,
\* whose product is HiddenWidth; a shorter embedding with the default k; and
\* a shorter embedding with a k that makes the product HiddenWidth again
NlmArguments == {<<DefaultEmbeddingLength, DefaultK>>, <<32, DefaultK>>, <<32, 8>>}

\* learning_rate of train: its default
LearningRates == {"0.1"}

\* ------------------------------------------------------------- tokens ----
W_A  == <<65>>                        \* "A"
W_a  == <<97>>                        \* "a"
W_bang == <<33>>                      \* "!"
W_z  == <<122>>                       \* "z", never part of the corpus
S_START == <<60, 115, 62>>            \* "<s>"
S_END   == <<60, 47, 115, 62>>        \* "</s>"
UNK     == <<60, 117, 110, 107, 62>>  \* "<unk>"

\* The words a raw corpus is written with: ordinary words, upper or lower
\* case, distinct from the three marker strings.
RawWords == {W_A, W_a, W_bang}

\* the sentences of at most t words
RawSentences(t) == UNION {[1..n -> RawWords] : n \in 0..t}

\* the corpora of n sentences with at most t words in all
RECURSIVE CorporaOf(_, _)
CorporaOf(n, t) ==
  IF n = 0 THEN {<<>>}
  ELSE UNION {{<<sent>> \o rest : rest \in CorporaOf(n - 1, t - Len(sent))} :
                sent \in RawSentences(t)}

RawCorpora == UNION {CorporaOf(n, MaxTokens) : n \in 0..MaxSents}

\* ------------------------------------------------------ str and list -----
\* str.lower() on one character (ASCII letters)
LowerChar(ch) == IF ch >= 65 /\ ch <= 90 THEN ch + 32 ELSE ch

\* str.lower()
Lower(word) == [i \in 1..Len(word) |-> LowerChar(word[i])]

\* str.__lt__: code point order, a proper prefix is smaller
RECURSIVE StrLess(_, _)
StrLess(u, v) ==
  IF v = <<>> THEN FALSE
  ELSE IF u = <<>> THEN TRUE
  ELSE IF Head(u) # Head(v) THEN Head(u) < Head(v)
  ELSE StrLess(Tail(u), Tail(v))

\* insertion of x into the sorted list lst, after the elements not above it
RECURSIVE InsertSorted(_, _)
InsertSorted(x, lst) ==
  IF lst = <<>> THEN <<x>>
  ELSE IF StrLess(x, Head(lst)) THEN <<x>> \o lst
  ELSE <<Head(lst)>> \o InsertSorted(x, Tail(lst))

RECURSIVE SortFrom(_, _)
SortFrom(lst, acc) ==
  IF lst = <<>> THEN acc ELSE SortFrom(Tail(lst), InsertSorted(Head(lst), acc))

\* list.sort() left out: the list stays in insertion order
list_sort_Unsorted(lst) == lst

\* list.sort() of a list of strings
list_sort(lst) == SortFrom(lst, <<>>)

\* list.extend()
list_extend(lst, more) == lst \o more

Range(f) == {f[i] : i \in DOMAIN f}

\* ------------------------------------------------------------- dict ------
EmptyDict == [keys |-> <<>>, val |-> <<>>]

DictHas(d, key) == key \in Range(d.keys)

\* d[key] = v
DictSet(d, key, v) ==
  [keys |-> IF DictHas(d, key) THEN d.keys ELSE Append(d.keys, key),
   val  |-> [x \in Range(d.keys) \cup {key} |-> IF x = key THEN v ELSE d.val[x]]]

\* d.get(key, default)
DictGet(d, key, default) == IF DictHas(d, key) THEN d.val[key] ELSE default

\* len(d)
DictLen(d) == Len(d.keys)

\* ------------------------------------------------- vocabulary builder ----
lowercase_corpus(original_corpus) ==
  [s \in 1..Len(original_corpus) |->
     [i \in 1..Len(original_corpus[s]) |-> Lower(original_corpus[s][i])]]

\* the body of the inner loop of get_word_counts
CountWord(vocab_dict, word) ==
  IF ~DictHas(vocab_dict, word)
    THEN DictSet(vocab_dict, word, DictGet(vocab_dict, word, 0) + 1)
    ELSE DictSet(vocab_dict, word, vocab_dict.val[word] + 1)

RECURSIVE CountSent(_, _)
CountSent(vocab_dict, sent) ==
  IF sent = <<>> THEN vocab_dict
  ELSE CountSent(CountWord(vocab_dict, Head(sent)), Tail(sent))

RECURSIVE CountCorpus(_, _)
CountCorpus(vocab_dict, c) ==
  IF c = <<>> THEN vocab_dict
  ELSE CountCorpus(CountSent(vocab_dict, Head(c)), Tail(c))

get_word_counts(c) == CountCorpus(EmptyDict, c)

\* a threshold of two instead of one
IsOne_AtMostTwo(count) == count <= 2

\* `word_counts[word] is 1`: CPython keeps one object per small integer, so
\* the identity test on a count agrees with the comparison count = 1.
IsOne(count) == count = 1

\* the replacement assigned to the loop variable instead of the list: the
\* corpus stays as it was
replace_rare_words_NoWriteBack(c, counts) == c

\* the corpus after replace_rare_words(corpus, word_counts) has rewritten it
replace_rare_words(c, counts) ==
  [s \in 1..Len(c) |->
     [i \in 1..Len(c[s]) |->
        IF IsOne(counts.val[c[s][i]]) THEN UNK ELSE c[s][i]]]

\* vocabulary = list(new_word_counts.keys()); extend; sort
vocabulary_list(counts) == list_sort(list_extend(counts.keys, <<S_START, S_END>>))

\* {vocabulary[i]: i for i in range(len(vocabulary))}: a later entry of the
\* list overwrites an earlier one with the same word
RECURSIVE DictFromList(_, _, _)
DictFromList(lst, i, d) ==
  IF i >= Len(lst) THEN d
  ELSE DictFromList(lst, i + 1, DictSet(d, lst[i + 1], i))

vocabulary_dict(lst) == DictFromList(lst, 0, EmptyDict)

\* ----------------------------------------------------- one-hot encoder ---
Ok(v)    == [err |-> "none", value |-> v]
Raise(e) == [err |-> e, value |-> <<>>]

\* convert_to_one_hot(word, vocabulary): the row of the [1, n] tensor.
\* vocabulary[word] raises KeyError for an absent word; the assignment
\* one_hot_vec[0][word_idx] = 1 raises IndexError for word_idx >= n.
convert_to_one_hot(word, vocab) ==
  LET n == DictLen(vocab) IN
  IF ~DictHas(vocab, word) THEN Raise("KeyError")
  ELSE IF vocab.val[word] >= n THEN Raise("IndexError")
  ELSE Ok([j \in 1..n |-> IF j = vocab.val[word] + 1 THEN 1 ELSE 0])

\* ------------------------------------------------------ context sampler --
\* the elements drawn with replacement: one may come twice, another not at all
Shuffles_WithReplacement(lst) ==
  {[i \in 1..Len(lst) |-> lst[p[i]]] : p \in [1..Len(lst) -> 1..Len(lst)]}

\* random.shuffle(corpus): the list object holds some permutation afterwards
Shuffles(lst) ==
  {[i \in 1..Len(lst) |-> lst[p[i]]] : p \in Permutations(1..Len(lst))}

Repeat(x, n) == [i \in 1..n |-> x]

\* the end marker left out
Pad_NoEndMarker(sent, k) == Repeat(S_START, k) \o sent

\* ['<s>']*k + sent + ['</s>']
Pad(sent, k) == Repeat(S_START, k) \o sent \o <<S_END>>

\* sent[i] for a Python index i (0-based; a negative i counts from the end)
PyIndex(sent, i) == IF i >= 0 THEN sent[i + 1] ELSE sent[Len(sent) + i + 1]

\* the window range(index-k+1, index+1): shifted by one, it holds the word itself
YieldValue_ShiftedWindow(vocab, k, sent, index) ==
  LET word == PyIndex(sent, index)
      hot  == [j \in 1..k |-> convert_to_one_hot(PyIndex(sent, index - k + j), vocab)]
  IN Ok([word_idx |-> vocab.val[word],
         context_vec |-> [j \in 1..k |-> hot[j].value]])

\* the tuple built at `yield (word_idx, context_vec)` for position index of
\* the padded sentence sent, or the exception raised while building it
YieldValue(vocab, k, sent, index) ==
  LET word == PyIndex(sent, index)
      hot  == [j \in 1..k |-> convert_to_one_hot(PyIndex(sent, index - k + j - 1), vocab)]
      bad  == {j \in 1..k : hot[j].err # "none"}
  IN IF ~DictHas(vocab, word) THEN Raise("KeyError")
     ELSE IF bad # {} THEN Raise(hot[CHOOSE j \in bad : \A m \in bad : j <= m].err)
     ELSE Ok([word_idx |-> vocab.val[word],
              context_vec |-> [j \in 1..k |-> hot[j].value]])

NoFrame == [state |-> "none", k |-> 0, sidx |-> 0, sent |-> <<>>, index |-> 0]

\* Run the body of generate_training_pairs from the top of the inner loop at
\* position index (0-based) of sentence number sidx, whose padded form is
\* sent, up to the next yield, the end of the outer loop, or an exception.
\* The result is the generator's frame and the value it yields.
RECURSIVE RunToYield(_, _, _, _, _, _)
RunToYield(c, vocab, k, sidx, sent, index) ==
  IF index < Len(sent) THEN
    IF PyIndex(sent, index) # S_START THEN
      LET y == YieldValue(vocab, k, sent, index) IN
      IF y.err # "none"
        THEN [frame |-> [state |-> "raised", k |-> k, sidx |-> sidx,
                         sent |-> sent, index |-> index],
              err |-> y.err, item |-> <<>>]
        ELSE [frame |-> [state |-> "suspended", k |-> k, sidx |-> sidx,
                         sent |-> sent, index |-> index],
              err |-> "none", item |-> y.value]
    ELSE RunToYield(c, vocab, k, sidx, sent, index + 1)
  ELSE IF sidx < Len(c) THEN
    RunToYield(c, vocab, k, sidx + 1, Pad(c[sidx + 1], k), 0)
  ELSE [frame |-> [state |-> "exhausted", k |-> k, sidx |-> sidx,
                   sent |-> sent, index |-> index],
        err |-> "none", item |-> <<>>]

\* the first next() on generate_training_pairs(c, vocab, k), c already shuffled
generate_training_pairs(c, vocab, k) == RunToYield(c, vocab, k, 0, <<>>, 0)

\* the loop resumed one position too far
generator_next_SkipsOne(c, vocab, frame) ==
  RunToYield(c, vocab, frame.k, frame.sidx, frame.sent, frame.index + 2)

\* a later next(): the loop continues behind the yield
generator_next(c, vocab, frame) ==
  RunToYield(c, vocab, frame.k, frame.sidx, frame.sent, frame.index + 1)

\* ------------------------------------------------------ language model --
NoGrad == [is_none |-> TRUE, terms |-> <<>>]

\* initialize_parameter(parameter_size): a tensor of that shape that
\* requires grad; `applied` lists the in-place updates made to it since.
initialize_parameter(parameter_size) ==
  [shape |-> parameter_size, grad |-> NoGrad, applied |-> <<>>]

ParamNames == {"E", "w1", "b1", "w2", "b2"}

NoModel ==
  [embedding_length |-> 0,
   E  |-> initialize_parameter(<<0, 0>>), w1 |-> initialize_parameter(<<0, 0>>),
   b1 |-> initialize_parameter(<<0, 0>>), w2 |-> initialize_parameter(<<0, 0>>),
   b2 |-> initialize_parameter(<<0, 0>>)]

\* NLM.__init__(vocabulary_size, embedding_length, k): k is not used
NLM(vocabulary_size, embedding_length, k) ==
  [embedding_length |-> embedding_length,
   E  |-> initialize_parameter(<<embedding_length, vocabulary_size>>),
   w1 |-> initialize_parameter(<<HiddenWidth, HiddenWidth>>),
   b1 |-> initialize_parameter(<<HiddenWidth, 1>>),
   w2 |-> initialize_parameter(<<vocabulary_size, HiddenWidth>>),
   b2 |-> initialize_parameter(<<vocabulary_size, 1>>)]

\* shape of torch.matmul(a, b) for two matrices
MatMul(a, b) ==
  IF a[2] # b[1] THEN Raise("RuntimeError") ELSE Ok(<<a[1], b[2]>>)

\* shape of torch.cat((a, b), 0)
Cat0(a, b) ==
  IF a[2] # b[2] THEN Raise("RuntimeError") ELSE Ok(<<a[1] + b[1], a[2]>>)

BroadcastOk(m, n) == m = n \/ m = 1 \/ n = 1
BroadcastDim(m, n) == IF m = 1 THEN n ELSE m

\* shape of torch.add(a, b), with broadcasting
Add(a, b) ==
  IF BroadcastOk(a[1], b[1]) /\ BroadcastOk(a[2], b[2])
    THEN Ok(<<BroadcastDim(a[1], b[1]), BroadcastDim(a[2], b[2])>>)
    ELSE Raise("RuntimeError")

\* the loop of forward_pass over context[index..], X being the shape so far
RECURSIVE Embed(_, _, _, _)
Embed(m, context, index, X) ==
  IF index >= Len(context) THEN Ok(X)
  ELSE LET c  == <<Len(context[index + 1]), 1>>    \* torch.transpose(c, 0, 1)
           ej == MatMul(m.E.shape, c)
       IN IF ej.err # "none" THEN ej
          ELSE IF index = 0 THEN Embed(m, context, index + 1, ej.value)
          ELSE LET cat == Cat0(X, ej.value) IN
               IF cat.err # "none" THEN cat
               ELSE Embed(m, context, index + 1, cat.value)

\* NLM.forward_pass(context): the shape of y_hat, or the exception raised
forward_pass(m, context) ==
  LET X == Embed(m, context, 0, <<m.embedding_length, 0>>) IN
  IF X.err # "none" THEN X ELSE
  LET h_mul == MatMul(m.w1.shape, X.value) IN
  IF h_mul.err # "none" THEN h_mul ELSE
  LET h_a == Add(h_mul.value, m.b1.shape) IN
  IF h_a.err # "none" THEN h_a ELSE
  LET y_mul == MatMul(m.w2.shape, h_a.value) IN
  IF y_mul.err # "none" THEN y_mul ELSE
  Add(y_mul.value, m.b2.shape)

\* ------------------------------------------------------------- trainer ---
NoLogY == [shape |-> <<0, 0>>, example |-> 0]
NoLoss == [shape |-> <<0>>, target |-> 0, example |-> 0]
NoTrain == [learning_rate |-> "", log_y |-> NoLogY, loss |-> NoLoss]

\* loss = -log_y[word_idx]
NegLogY(log_y, word_idx) ==
  IF word_idx >= log_y.shape[1] THEN Raise("IndexError")
  ELSE Ok([shape |-> <<log_y.shape[2]>>, target |-> word_idx,
           example |-> log_y.example])

\* loss.backward(): the gradient of loss is added to the .grad of a tensor
Accumulate(t, loss) ==
  [t EXCEPT !.grad = [is_none |-> FALSE, terms |-> Append(t.grad.terms, loss)]]

\* loss.backward() on the five parameters
Backward(m, loss) ==
  IF loss.shape # <<1>> THEN Raise("RuntimeError")
  ELSE Ok([m EXCEPT !.E = Accumulate(m.E, loss), !.w1 = Accumulate(m.w1, loss),
                    !.b1 = Accumulate(m.b1, loss), !.w2 = Accumulate(m.w2, loss),
                    !.b2 = Accumulate(m.b2, loss)])

\* t -= learning_rate * t.grad
SgdUpdate(t, learning_rate) ==
  [t EXCEPT !.applied = Append(t.applied, [learning_rate |-> learning_rate,
                                           grad |-> t.grad.terms])]

\* the five updates of the `with torch.no_grad()` block
UpdateAll(m, learning_rate) ==
  [m EXCEPT !.w1 = SgdUpdate(m.w1, learning_rate),
            !.w2 = SgdUpdate(m.w2, learning_rate),
            !.E  = SgdUpdate(m.E, learning_rate),
            !.b1 = SgdUpdate(m.b1, learning_rate),
            !.b2 = SgdUpdate(m.b2, learning_rate)]

\* the reset left out: the gradient stays in the accumulator
ZeroGrad_Forgotten(t) == t

\* t.grad.zero_()
ZeroGrad(t) == [t EXCEPT !.grad = [is_none |-> FALSE, terms |-> <<>>]]

\* the five resets that end the block
ZeroAll(m) ==
  [m EXCEPT !.w1 = ZeroGrad(m.w1), !.w2 = ZeroGrad(m.w2), !.E = ZeroGrad(m.E),
            !.b1 = ZeroGrad(m.b1), !.b2 = ZeroGrad(m.b2)]

\* ----------------------------------------------------------- evaluator ---
\* the index evaluate_wordsim uses for a word of a pair
WordIndex(vocab, word) ==
  IF ~DictHas(vocab, word)
    THEN IF DictHas(vocab, UNK) THEN Ok(vocab.val[UNK]) ELSE Raise("KeyError")
    ELSE Ok(vocab.val[word])

\* the words of the pairs of the evaluation file, and the words the script
\* encodes on their own: some in the corpus, "z" never
LookupWords == {W_a, W_z}
EncodedWords == {W_bang, W_z}

NoWordsim == [one |-> 0, two |-> 0]

\* torch.dot(embedding1, embedding2) of two vectors of one length
RECURSIVE Dot(_, _)
Dot(u, v) ==
  IF u = <<>> THEN 0 ELSE Head(u) * Head(v) + Dot(Tail(u), Tail(v))

\* torch.norm(embedding) squared: the norm itself is its square root, zero
\* exactly when this is zero
NormSq(u) == Dot(u, u)

\* the float division num / sqrt(den_sq): a zero divisor raises nothing, it
\* gives nan for 0/0 and an infinity otherwise
FloatDivide(num, den_sq) ==
  IF den_sq = 0
    THEN IF num = 0 THEN [kind |-> "nan", num |-> 0, den_sq |-> 0]
         ELSE [kind |-> "inf", num |-> num, den_sq |-> 0]
    ELSE [kind |-> "number", num |-> num, den_sq |-> den_sq]

\* get_cosine_similarity(embedding1, embedding2): the dot product over the
\* product of the norms, returned by item() whatever it is
get_cosine_similarity(embedding1, embedding2) ==
  Ok(FloatDivide(Dot(embedding1, embedding2),
                 NormSq(embedding1) * NormSq(embedding2)))

\* the vectors get_cosine_similarity is called with: columns of an embedding
\* matrix, of one length, the zero vector among them
RECURSIVE VectorsOfLen(_)
VectorsOfLen(n) ==
  IF n = 0 THEN {<<>>}
  ELSE {Append(v, x) : v \in VectorsOfLen(n - 1), x \in (0 - MaxCoord)..MaxCoord}

EmbeddingPairs ==
  UNION {VectorsOfLen(n) \X VectorsOfLen(n) : n \in 1..MaxVectorLen}

NoResult == [err |-> "pending", value |-> [kind |-> "none", num |-> 0, den_sq |-> 0]]
NoCosine == [embedding1 |-> <<>>, embedding2 |-> <<>>, result |-> NoResult]

\* ------------------------------------------------------------- state -----
VARIABLES
  pc,               \* position in the module-level script
  error,            \* the uncaught exception that ended the script, or "none"
  brown_corpus,     \* the raw corpus
  corpus,           \* the list object `corpus`
  word_counts,      \* get_word_counts(corpus) before the replacement
  new_word_counts,  \* get_word_counts(corpus) after the replacement
  vocabulary,       \* the sorted list, then the dict word -> index
  gen,              \* frame of the live generate_training_pairs generator
  yielded,          \* what the current invocation has yielded so far, each
                    \* item with the sentence number and position it is for
  nlm_args,         \* the arguments NLM was constructed with
  model,            \* the NLM object
  train,            \* locals of train: learning_rate, log_y, loss
  wordsim,          \* the two indices evaluate_wordsim resolved last
  cosine            \* a call of get_cosine_similarity: its two arguments
                    \* and, once it has returned, its outcome

vars == <<pc, error, brown_corpus, corpus, word_counts, new_word_counts,
          vocabulary, gen, yielded, nlm_args, model, train, wordsim, cosine>>

builder_vars == <<brown_corpus, word_counts, new_word_counts, vocabulary>>
sampler_vars == <<gen, yielded>>
model_vars   == <<nlm_args, model, train>>

Init ==
  /\ pc = "lowercase"
  /\ error = "none"
  /\ brown_corpus \in RawCorpora
  /\ corpus = <<>>
  /\ word_counts = EmptyDict
  /\ new_word_counts = EmptyDict
  /\ vocabulary = <<>>
  /\ gen = NoFrame
  /\ yielded = <<>>
  /\ nlm_args = [vocabulary_size |-> 0, embedding_length |-> 0, k |-> 0]
  /\ model = NoModel
  /\ train = NoTrain
  /\ wordsim = NoWordsim
  /\ cosine = NoCosine

\* corpus = lowercase_corpus(brown_corpus)
LowercaseCorpus ==
  /\ pc = "lowercase"
  /\ corpus' = lowercase_corpus(brown_corpus)
  /\ pc' = "count"
  /\ UNCHANGED <<error, builder_vars, sampler_vars, model_vars, wordsim, cosine>>

\* word_counts = get_word_counts(corpus)
GetWordCounts ==
  /\ pc = "count"
  /\ word_counts' = get_word_counts(corpus)
  /\ pc' = "replace"
  /\ UNCHANGED <<error, brown_corpus, corpus, new_word_counts, vocabulary,
                 sampler_vars, model_vars, wordsim, cosine>>

\* replace_rare_words(corpus, word_counts)
ReplaceRareWords ==
  /\ pc = "replace"
  /\ corpus' = replace_rare_words(corpus, word_counts)
  /\ pc' = "recount"
  /\ UNCHANGED <<error, builder_vars, sampler_vars, model_vars, wordsim, cosine>>

\* new_word_counts = get_word_counts(corpus)
Recount ==
  /\ pc = "recount"
  /\ new_word_counts' = get_word_counts(corpus)
  /\ pc' = "vocab_list"
  /\ UNCHANGED <<error, brown_corpus, corpus, word_counts, vocabulary,
                 sampler_vars, model_vars, wordsim, cosine>>

\* vocabulary = list(new_word_counts.keys()); extend; sort
BuildVocabularyList ==
  /\ pc = "vocab_list"
  /\ vocabulary' = vocabulary_list(new_word_counts)
  /\ pc' = "vocab_dict"
  /\ UNCHANGED <<error, brown_corpus, corpus, word_counts, new_word_counts,
                 sampler_vars, model_vars, wordsim, cosine>>

\* vocabulary = {vocabulary[i]: i for i in range(len(vocabulary))}
BuildVocabularyDict ==
  /\ pc = "vocab_dict"
  /\ vocabulary' = vocabulary_dict(vocabulary)
  /\ pc' = "ready"
  /\ UNCHANGED <<error, brown_corpus, corpus, word_counts, new_word_counts,
                 sampler_vars, model_vars, wordsim, cosine>>

\* convert_to_one_hot(word, vocabulary), as in print(convert_to_one_hot('!',
\* vocabulary)); an exception ends the script
EncodeWord ==
  /\ pc = "ready"
  /\ gen.state = "none"
  /\ \E word \in EncodedWords :
       LET r == convert_to_one_hot(word, vocabulary) IN
         /\ error' = r.err
         /\ pc' = IF r.err # "none" THEN "crashed" ELSE pc
  /\ UNCHANGED <<corpus, builder_vars, sampler_vars, model_vars, wordsim, cosine>>

\* What a step of the generator leaves behind: its frame, the log of the
\* items handed to the consumer, and where the consumer goes on: at_item
\* with an item, at_end when the generator is exhausted, nowhere when it
\* raised.
GeneratorStep(r, log, at_item, at_end) ==
  /\ gen' = r.frame
  /\ yielded' = IF r.frame.state = "suspended"
                  THEN Append(log, [sidx |-> r.frame.sidx, index |-> r.frame.index,
                                    word_idx |-> r.item.word_idx,
                                    context_vec |-> r.item.context_vec])
                  ELSE log
  /\ error' = r.err
  /\ pc' = IF r.err # "none" THEN "crashed"
           ELSE IF r.frame.state = "suspended" THEN at_item ELSE at_end

\* `for word, _ in generate_training_pairs(corpus, vocabulary, k):` reaches
\* its first item: the generator shuffles the list object `corpus` and runs
\* to its first yield.
SamplerInvoke ==
  /\ pc = "ready"
  /\ gen.state = "none"
  /\ \E k \in 0..MaxK, shuffled \in Shuffles(corpus) :
       /\ corpus' = shuffled
       /\ GeneratorStep(generate_training_pairs(shuffled, vocabulary, k), <<>>,
                        "ready", "ready")
  /\ UNCHANGED <<builder_vars, model_vars, wordsim, cosine>>

\* the for loop asks for the next item
SamplerNext ==
  /\ pc = "ready"
  /\ gen.state = "suspended"
  /\ GeneratorStep(generator_next(corpus, vocabulary, gen), yielded, "ready", "ready")
  /\ UNCHANGED <<corpus, builder_vars, model_vars, wordsim, cosine>>

\* `break`: the loop is left; the suspended generator is closed and dropped
SamplerBreak ==
  /\ pc = "ready"
  /\ gen.state = "suspended"
  /\ gen' = NoFrame
  /\ yielded' = <<>>
  /\ UNCHANGED <<pc, error, corpus, builder_vars, model_vars, wordsim, cosine>>

\* the loop has ended with the generator exhausted, which is dropped
SamplerDone ==
  /\ pc = "ready"
  /\ gen.state = "exhausted"
  /\ gen' = NoFrame
  /\ yielded' = <<>>
  /\ UNCHANGED <<pc, error, corpus, builder_vars, model_vars, wordsim, cosine>>

\* model = NLM(len(vocabulary), embedding_length, k)
ConstructNLM ==
  /\ pc = "ready"
  /\ gen.state = "none"
  /\ \E args \in NlmArguments :
       /\ nlm_args' = [vocabulary_size |-> DictLen(vocabulary),
                       embedding_length |-> args[1], k |-> args[2]]
       /\ model' = NLM(DictLen(vocabulary), args[1], args[2])
  /\ pc' = "constructed"
  /\ UNCHANGED <<error, corpus, builder_vars, sampler_vars, train, wordsim, cosine>>

\* train(model, corpus, vocabulary, learning_rate) is called and its for
\* loop reaches the first item of generate_training_pairs(corpus, vocabulary)
TrainStart ==
  /\ pc = "constructed"
  /\ \E learning_rate \in LearningRates, shuffled \in Shuffles(corpus) :
       /\ train' = [NoTrain EXCEPT !.learning_rate = learning_rate]
       /\ corpus' = shuffled
       /\ GeneratorStep(generate_training_pairs(shuffled, vocabulary, DefaultK), <<>>,
                        "train_forward", "trained")
  /\ UNCHANGED <<builder_vars, nlm_args, model, wordsim, cosine>>

\* log_y = model.forward_pass(word_context[1])
TrainForward ==
  /\ pc = "train_forward"
  /\ LET r == forward_pass(model, yielded[Len(yielded)].context_vec) IN
       /\ error' = r.err
       /\ pc' = IF r.err # "none" THEN "crashed" ELSE "train_loss"
       /\ train' = IF r.err # "none" THEN train
                   ELSE [train EXCEPT !.log_y = [shape |-> r.value,
                                                 example |-> Len(yielded)]]
  /\ UNCHANGED <<corpus, builder_vars, sampler_vars, nlm_args, model, wordsim, cosine>>

\* loss = -log_y[word_context[0]]
TrainLoss ==
  /\ pc = "train_loss"
  /\ LET r == NegLogY(train.log_y, yielded[Len(yielded)].word_idx) IN
       /\ error' = r.err
       /\ pc' = IF r.err # "none" THEN "crashed" ELSE "train_backward"
       /\ train' = IF r.err # "none" THEN train ELSE [train EXCEPT !.loss = r.value]
  /\ UNCHANGED <<corpus, builder_vars, sampler_vars, nlm_args, model, wordsim, cosine>>

\* loss.backward()
TrainBackward ==
  /\ pc = "train_backward"
  /\ LET r == Backward(model, train.loss) IN
       /\ error' = r.err
       /\ pc' = IF r.err # "none" THEN "crashed" ELSE "train_update"
       /\ model' = IF r.err # "none" THEN model ELSE r.value
  /\ UNCHANGED <<corpus, builder_vars, sampler_vars, nlm_args, train, wordsim, cosine>>

\* model.w1 -= learning_rate*model.w1.grad, then the same for w2, E, b1, b2
TrainUpdate ==
  /\ pc = "train_update"
  /\ model' = UpdateAll(model, train.learning_rate)
  /\ pc' = "train_zero"
  /\ UNCHANGED <<error, corpus, builder_vars, sampler_vars, nlm_args, train, wordsim, cosine>>

\* model.w1.grad.zero_(), then the same for w2, E, b1, b2
TrainZero ==
  /\ pc = "train_zero"
  /\ model' = ZeroAll(model)
  /\ pc' = "train_next"
  /\ UNCHANGED <<error, corpus, builder_vars, sampler_vars, nlm_args, train, wordsim, cosine>>

\* the for loop of train asks for the next item; train returns when there
\* is none
TrainNext ==
  /\ pc = "train_next"
  /\ GeneratorStep(generator_next(corpus, vocabulary, gen), yielded,
                   "train_forward", "trained")
  /\ UNCHANGED <<corpus, builder_vars, model_vars, wordsim, cosine>>

\* one round of the loop of evaluate_wordsim(word_pairs, gold_scores,
\* model.E, vocabulary): the two indices of a pair are resolved
EvaluateWordsim ==
  /\ pc = "trained"
  /\ \E word_one \in LookupWords, word_two \in LookupWords :
       LET one == WordIndex(vocabulary, word_one)
           two == WordIndex(vocabulary, word_two)
           err == IF one.err # "none" THEN one.err ELSE two.err
       IN /\ error' = err
          /\ pc' = IF err # "none" THEN "crashed" ELSE pc
          /\ wordsim' = IF err # "none" THEN wordsim
                        ELSE [one |-> one.value, two |-> two.value]
  /\ UNCHANGED <<corpus, builder_vars, sampler_vars, model_vars, cosine>>

Next ==
  \/ LowercaseCorpus
  \/ GetWordCounts
  \/ ReplaceRareWords
  \/ Recount
  \/ BuildVocabularyList
  \/ BuildVocabularyDict
  \/ EncodeWord
  \/ SamplerInvoke
  \/ SamplerNext
  \/ SamplerBreak
  \/ SamplerDone
  \/ ConstructNLM
  \/ TrainStart
  \/ TrainForward
  \/ TrainLoss
  \/ TrainBackward
  \/ TrainUpdate
  \/ TrainZero
  \/ TrainNext
  \/ EvaluateWordsim

Spec == Init /\ [][Next]_vars

\* ----------------------------------- get_cosine_similarity on its own ----
\* evaluate_wordsim is about to call get_cosine_similarity(e_one, e_two) on
\* two columns of the embedding matrix
CosineInit ==
  /\ pc = "cosine_call"
  /\ error = "none"
  /\ brown_corpus = <<>>
  /\ corpus = <<>>
  /\ word_counts = EmptyDict
  /\ new_word_counts = EmptyDict
  /\ vocabulary = <<>>
  /\ gen = NoFrame
  /\ yielded = <<>>
  /\ nlm_args = [vocabulary_size |-> 0, embedding_length |-> 0, k |-> 0]
  /\ model = NoModel
  /\ train = NoTrain
  /\ wordsim = NoWordsim
  /\ \E pair \in EmbeddingPairs :
       cosine = [embedding1 |-> pair[1], embedding2 |-> pair[2],
                 result |-> NoResult]

\* similarity_list.append(get_cosine_similarity(e_one, e_two))
GetCosineSimilarity ==
  /\ pc = "cosine_call"
  /\ LET r == get_cosine_similarity(cosine.embedding1, cosine.embedding2)
     IN /\ cosine' = [cosine EXCEPT !.result = r]
        /\ error' = r.err
        /\ pc' = IF r.err # "none" THEN "crashed" ELSE "cosine_return"
  /\ UNCHANGED <<corpus, builder_vars, sampler_vars, model_vars, wordsim>>

CosineNext == GetCosineSimilarity

CosineSpec == CosineInit /\ [][CosineNext]_vars

\* ------------------------------------------------------ claim helpers ----
BuilderPcs == {"lowercase", "count", "replace", "recount", "vocab_list", "vocab_dict"}

\* the dict `vocabulary` exists
VocabularyBuilt == pc \notin BuilderPcs

\* number of occurrences of word w in corpus c, by counting positions
Occurrences(c, w) ==
  Cardinality({sp \in UNION {{<<s, i>> : i \in 1..Len(c[s])} : s \in 1..Len(c)} :
                 c[sp[1]][sp[2]] = w})

WordsOf(c) == UNION {Range(c[s]) : s \in 1..Len(c)}

RECURSIVE SumLenPlusOne(_)
SumLenPlusOne(c) ==
  IF c = <<>> THEN 0 ELSE (Len(Head(c)) + 1) + SumLenPlusOne(Tail(c))

\* token at 0-based position p of sentence sent padded with k start markers
\* in front and one end marker behind
PaddedToken(sent, k, p) ==
  IF p < k THEN S_START
  ELSE IF p < k + Len(sent) THEN sent[p - k + 1]
  ELSE S_END

\* the positions (sentence number, 0-based padded position) of corpus c whose
\* token is not the start marker
EmittingPositions(c, k) ==
  {sp \in UNION {{<<s, p>> : p \in 0..(k + Len(c[s]))} : s \in 1..Len(c)} :
     PaddedToken(c[sp[1]], k, sp[2]) # S_START}

\* v is the indicator vector of index idx among n indices
IsOneHot(v, idx, n) ==
  /\ Len(v) = n
  /\ idx \in 0..(n - 1)
  /\ \A m \in 1..n : v[m] = (IF m = idx + 1 THEN 1 ELSE 0)

GeneratorRan == gen.state \in {"suspended", "exhausted"}

\* ------------------------------------------------------------- claims ----
\* C1: one full iteration of generate_training_pairs over a corpus with
\* sentence lengths L1..LN ends after emitting exactly the sum of (Li + 1)
\* examples, whatever k; before the end it has emitted fewer.
C1_EpochEmitsSumLenPlusOne ==
  /\ gen.state = "exhausted" => Len(yielded) = SumLenPlusOne(corpus)
  /\ gen.state = "suspended" =>
       /\ Len(yielded) >= 1
       /\ Len(yielded) <= SumLenPlusOne(corpus)

C1_Witness ==
  /\ gen.state = "exhausted"
  /\ gen.k = 2
  /\ Len(corpus) = 2
  /\ Len(corpus[1]) = 2
  /\ Len(corpus[2]) = 1
  /\ Len(yielded) = 5

\* C2: every emitted example is for a padded position (k start markers, the
\* sentence, one end marker) whose token is not the start marker; its target
\* is the vocabulary index of that token and its context is exactly the k
\* one-hot vectors of the k preceding padded tokens, oldest first; every
\* such position passed so far has been emitted, the end marker's included,
\* and no start-marker position has.
C2_EmittedExamples ==
  GeneratorRan =>
    LET emitting == EmittingPositions(corpus, gen.k) IN
    /\ \A n \in 1..Len(yielded) :
         LET y    == yielded[n]
             sent == corpus[y.sidx]
         IN /\ <<y.sidx, y.index>> \in emitting
            /\ y.word_idx = vocabulary.val[PaddedToken(sent, gen.k, y.index)]
            /\ Len(y.context_vec) = gen.k
            /\ \A j \in 1..gen.k :
                 IsOneHot(y.context_vec[j],
                          vocabulary.val[PaddedToken(sent, gen.k, y.index - gen.k + j - 1)],
                          DictLen(vocabulary))
    /\ {<<yielded[n].sidx, yielded[n].index>> : n \in 1..Len(yielded)}
         = {sp \in emitting :
              \/ gen.state = "exhausted"
              \/ sp[1] < gen.sidx
              \/ sp[1] = gen.sidx /\ sp[2] <= gen.index}

C2_Witness ==
  /\ gen.state = "exhausted"
  /\ gen.k = 2
  /\ corpus = << <<W_a, W_a>> >>
  /\ Len(yielded) = 3
  /\ yielded[1].context_vec = <<yielded[2].context_vec[1], yielded[2].context_vec[1]>>
  /\ yielded[2].word_idx = vocabulary.val[W_a]
  /\ yielded[3].word_idx = vocabulary.val[S_END]
  /\ yielded[3].context_vec[1] = yielded[2].context_vec[2]
  /\ yielded[3].context_vec[1] # yielded[2].context_vec[1]

\* C3: an invocation of generate_training_pairs leaves the caller's corpus
\* with the same sentences in the same order.
C3_CorpusUntouchedBySampler ==
  [][(gen.state = "none" /\ gen'.state # "none") => corpus' = corpus]_vars

\* C4: replace_rare_words, given the counts of get_word_counts, turns exactly
\* the tokens that occur once in the corpus into "<unk>" and keeps every
\* other token, the number of sentences and each sentence's length.
C4_ReplaceRareWords ==
  [][pc = "replace" =>
       /\ Len(corpus') = Len(corpus)
       /\ \A s \in 1..Len(corpus) :
            /\ Len(corpus'[s]) = Len(corpus[s])
            /\ \A i \in 1..Len(corpus[s]) :
                 /\ word_counts.val[corpus[s][i]] = Occurrences(corpus, corpus[s][i])
                 /\ Occurrences(corpus, corpus[s][i]) = 1 => corpus'[s][i] = UNK
                 /\ Occurrences(corpus, corpus[s][i]) >= 2 => corpus'[s][i] = corpus[s][i]]_vars

C4_Witness ==
  /\ pc = "recount"
  /\ brown_corpus = << <<W_A, W_a, W_bang>> >>
  /\ corpus = << <<W_a, W_a, UNK>> >>

\* C5: |V| is the number of distinct words of the corpus after the
\* replacement plus 2, and "<unk>" is in the vocabulary exactly when some
\* word of the lowercased corpus occurred exactly once.
C5_VocabularySize ==
  VocabularyBuilt =>
    /\ DictLen(vocabulary) = Cardinality(WordsOf(corpus)) + 2
    /\ DictHas(vocabulary, UNK) <=>
         \E w \in WordsOf(lowercase_corpus(brown_corpus)) :
           Occurrences(lowercase_corpus(brown_corpus), w) = 1

C5_Witness ==
  /\ VocabularyBuilt
  /\ DictLen(vocabulary) = 4
  /\ DictHas(vocabulary, UNK)
  /\ DictHas(vocabulary, W_a)

\* C6: each word's index is its rank among the distinct surviving words and
\* the two boundary markers in ascending string order, so the mapping is
\* injective and its indices are exactly 0..|V|-1.
C6_VocabularyIndices ==
  VocabularyBuilt =>
    LET V == WordsOf(corpus) \cup {S_START, S_END} IN
    /\ Range(vocabulary.keys) = V
    /\ \A w \in V : vocabulary.val[w] = Cardinality({u \in V : StrLess(u, w)})
    /\ \A u, w \in V : vocabulary.val[u] = vocabulary.val[w] => u = w
    /\ {vocabulary.val[w] : w \in V} = 0..(DictLen(vocabulary) - 1)

C6_Witness ==
  /\ VocabularyBuilt
  /\ DictLen(vocabulary) = 4
  /\ new_word_counts.keys = <<UNK, W_bang>>
  /\ vocabulary.val[W_bang] = 0
  /\ vocabulary.val[S_END] = 1
  /\ vocabulary.val[S_START] = 2
  /\ vocabulary.val[UNK] = 3

\* C7: NLM is only ever constructed with k * embedding_length equal to the
\* hidden width: a mismatch fails the construction and leaves no model.
C7_ConstructionValidatesWidth ==
  model # NoModel => nlm_args.k * nlm_args.embedding_length = HiddenWidth

\* C8: looking up a word that is not in the vocabulary never raises: neither
\* evaluate_wordsim nor convert_to_one_hot ends in a KeyError.
C8_UnknownWordNeverRaises ==
  error # "KeyError"

\* ---- trainer claims
TrainPcs == {"train_forward", "train_loss", "train_backward", "train_update",
             "train_zero", "train_next"}

\* the loss of the m-th example of the epoch: minus the log-probability of
\* its target index, out of its own forward pass
ExampleLoss(m) == [shape |-> <<1>>, target |-> yielded[m].word_idx, example |-> m]

C10_OnlineSgdOrder ==
  pc \in TrainPcs \cup {"trained"} =>
    LET n == Len(yielded) IN
    /\ pc = "train_loss" => train.log_y.example = n
    /\ pc \in {"train_backward", "train_update", "train_zero", "train_next"} =>
         /\ train.log_y.example = n
         /\ train.loss = ExampleLoss(n)
    /\ \A p \in ParamNames :
         /\ \A m \in 1..Len(model[p].applied) :
              model[p].applied[m] = [learning_rate |-> train.learning_rate,
                                     grad |-> <<ExampleLoss(m)>>]
         /\ Len(model[p].applied) =
              IF pc \in {"train_forward", "train_loss", "train_backward", "train_update"}
                THEN n - 1 ELSE n
         /\ model[p].grad.terms =
              IF pc \in {"train_update", "train_zero"}
                THEN <<ExampleLoss(n)>> ELSE <<>>

C10_Witness ==
  /\ pc = "train_forward"
  /\ Len(yielded) = 3
  /\ \A p \in ParamNames :
       /\ ~model[p].grad.is_none
       /\ model[p].grad.terms = <<>>
       /\ Len(model[p].applied) = 2
  /\ model.E.applied[1] # model.E.applied[2]

\* ---------------------------------------------------------------- C11 ----
\* a call of get_cosine_similarity has returned
CosineReturned == pc \in {"cosine_return", "crashed"} /\ cosine.result # NoResult

\* C11: a call of get_cosine_similarity with a vector whose norm is zero
\* ends in a signaled condition, never in a nan returned as if it were a
\* similarity.  The function divides whatever the norms are and returns the
\* nan of 0/0, so this is violated.
C11_ZeroNormIsSignaled ==
  (CosineReturned /\ (NormSq(cosine.embedding1) = 0 \/ NormSq(cosine.embedding2) = 0))
    => cosine.result.err # "none"

\* ---------------------------------------------------------------- C12 ----
\* the context window the next forward pass is called with
ForwardContext == yielded[Len(yielded)].context_vec

\* C12: on a constructed model, a forward pass on a window of exactly k
\* one-hot vectors of length |V| (k, |V| as given to the constructor) never
\* fails on a dimension and returns an output of length |V|.  NLM accepts
\* any k and embedding length (C7), and with k * embedding_length other than
\* the hidden width the product with w1 raises, so this is violated.
C12_ForwardReturnsVocabularyLength ==
  [][(/\ pc = "train_forward"
      /\ model # NoModel
      /\ Len(ForwardContext) = nlm_args.k
      /\ \A j \in 1..Len(ForwardContext) :
           \E idx \in 0..(nlm_args.vocabulary_size - 1) :
             IsOneHot(ForwardContext[j], idx, nlm_args.vocabulary_size))
     => (/\ pc' = "train_loss"
         /\ error' = "none"
         /\ train'.log_y.shape = <<nlm_args.vocabulary_size, 1>>)]_vars

\* ---------------------------------------------------------------- C13 ----
\* the corpus in the order the script built it in, before any shuffle
UnshuffledCorpus ==
  LET lowered == lowercase_corpus(brown_corpus)
  IN replace_rare_words(lowered, get_word_counts(lowered))

\* the (target index, context) pair due for padded position sp of corpus c
ExpectedPair(c, k, sp) ==
  LET sent == c[sp[1]]
      n    == DictLen(vocabulary)
      hot(idx) == [m \in 1..n |-> IF m = idx + 1 THEN 1 ELSE 0]
  IN [word_idx    |-> vocabulary.val[PaddedToken(sent, k, sp[2])],
      context_vec |-> [j \in 1..k |->
                         hot(vocabulary.val[PaddedToken(sent, k, sp[2] - k + j - 1)])]]

\* the (target index, context) pair of a logged item
EmittedPair(y) == [word_idx |-> y.word_idx, context_vec |-> y.context_vec]

\* C13: the shuffle of generate_training_pairs changes the order of the
\* sentences and nothing else.  Within an invocation the examples come
\* sentence after sentence, those of one sentence together and from left to
\* right; and a completed invocation has emitted, as a multiset of (target
\* index, context) pairs, exactly the pairs of the corpus in its unshuffled
\* order for the same vocabulary and k, whatever order the shuffle produced.
C13_ShufflePermutesSentencesOnly ==
  GeneratorRan =>
    /\ \A n \in 1..(Len(yielded) - 1) :
         \/ yielded[n].sidx < yielded[n + 1].sidx
         \/ /\ yielded[n].sidx = yielded[n + 1].sidx
            /\ yielded[n].index < yielded[n + 1].index
    /\ gen.state = "exhausted" =>
         LET ref      == UnshuffledCorpus
             expected == EmittingPositions(ref, gen.k)
             pairs    == {EmittedPair(yielded[n]) : n \in 1..Len(yielded)}
                           \cup {ExpectedPair(ref, gen.k, sp) : sp \in expected}
         IN \A p \in pairs :
              Cardinality({n \in 1..Len(yielded) : EmittedPair(yielded[n]) = p})
                = Cardinality({sp \in expected : ExpectedPair(ref, gen.k, sp) = p})

\* a completed invocation whose shuffle swapped two different sentences
C13_Witness ==
  /\ gen.state = "exhausted"
  /\ gen.k = 1
  /\ Len(corpus) = 2
  /\ corpus[1] # corpus[2]
  /\ corpus # UnshuffledCorpus
  /\ Len(yielded) = 5
  /\ yielded[2].sidx = 2
  /\ yielded[3].sidx = 2

====
